---------------------------- MODULE Spec2Model ----------------------------
(***************************************************************************)
(* Growth ledger of the harada goal tracker: the leaf view's graft form    *)
(* (src/src/ui/leaf-view.ts, and its origin-chaining variant               *)
(* src/unnamed/part_000) and the shine dialog                              *)
(* (src/src/features/shine-dialog.ts).                                     *)
(*                                                                         *)
(* The program state is held in the VARIABLES below.  Every function of    *)
(* the source is an operator from a state record to a state record; a      *)
(* handler is the sequence of the steps of its body, in source order.      *)
(* Spec and SpecShine run a handler to completion in one action (the       *)
(* platform is single-threaded).  SpecSteps runs the same step sequences   *)
(* one step at a time and lets a callback re-enter a handler.              *)
(***************************************************************************)
EXTENDS Integers, Sequences, FiniteSets, TLC

VARIABLES
    \* resource ledger (../state)
    soil, soilRefused, sun, sunRefused, week,
    \* nodeState (../state)
    sprouts, leaves, sunEntries,
    \* buildLeafView closure state and the DOM of logEl
    variant, currentTwigId, currentLeafId, graftFromSproutId,
    selectedSeason, selectedEnvironment, isOpen,
    logKind, formPresent, formHidden, triggerHidden, titleValue,
    confirmDisabled, graftBtns,
    \* initShineDialog closure state and the dialog's DOM
    currentShiningSprout, journal, dialogHidden, saveDisabled, placeholder,
    recentSunPrompts, sunMeter,
    \* the prompts parsed from the asset when the module loads, and the
    \* prompts getRandomSunPrompt has returned, oldest first (kept by the
    \* specification of the prompt buffer)
    sunPrompts, returned,
    \* the clock (new Date()), the offset of local time from UTC in hours,
    \* and what buildUnifiedLog returned last
    now, tz, log,
    \* the handler that ran last, and the callbacks it invoked, in order
    handler, calls,
    \* control: the frames of the handlers that are running (SpecSteps only)
    stack

vars == <<soil, soilRefused, sun, sunRefused, week, sprouts, leaves, sunEntries,
          variant, currentTwigId, currentLeafId, graftFromSproutId,
          selectedSeason, selectedEnvironment, isOpen,
          logKind, formPresent, formHidden, triggerHidden, titleValue,
          confirmDisabled, graftBtns,
          currentShiningSprout, journal, dialogHidden, saveDisabled, placeholder,
          recentSunPrompts, sunMeter, sunPrompts, returned,
          now, tz, log, handler, calls, stack>>

-----------------------------------------------------------------------------
(* Bounds of the model *)

StartSoil == 6
SunCapacity == 2
MaxSprouts == 3
MaxWeek == 2
MaxDepth == 2
PoolSize == 3

-----------------------------------------------------------------------------
(* Values *)

NULL == "null"

SEASONS == <<"1w", "2w", "1m", "3m", "6m", "1y">>
ENVIRONMENTS == <<"fertile", "firm", "barren">>

Range(f) == {f[i] : i \in DOMAIN f}

TwigIds == {"t1", "t2"}
\* the leaves a caller can open, each with the twig it belongs to
Threads == {<<"l1", "t1">>, <<"l2", "t2">>}

\* texts are sequences of characters; " " is white space
TextInputs == {<<>>, <<" ">>, <<" ", "a", " ">>}

RECURSIVE TrimStart(_)
TrimStart(t) == IF t # <<>> /\ Head(t) = " " THEN TrimStart(Tail(t)) ELSE t

RECURSIVE TrimEnd(_)
TrimEnd(t) ==
    IF t # <<>> /\ t[Len(t)] = " " THEN TrimEnd(SubSeq(t, 1, Len(t) - 1)) ELSE t

\* String.prototype.trim
trim(t) == TrimEnd(TrimStart(t))


-----------------------------------------------------------------------------
(* Date: an instant is a number of hours since 1 January of EpochYear,     *)
(* 00:00 UTC; months count from 0 as in JavaScript                          *)

EpochYear == 2023

IsLeap(y) == y % 4 = 0 /\ (y % 100 # 0 \/ y % 400 = 0)

DaysInMonth(y, m) ==
    CASE m = 1 -> IF IsLeap(y) THEN 29 ELSE 28
      [] m \in {3, 5, 8, 10} -> 30
      [] OTHER -> 31

DaysInYear(y) == IF IsLeap(y) THEN 366 ELSE 365

RECURSIVE DaysBeforeYear(_)
DaysBeforeYear(y) ==
    IF y <= EpochYear THEN 0 ELSE DaysBeforeYear(y - 1) + DaysInYear(y - 1)

RECURSIVE DaysBeforeMonth(_, _)
DaysBeforeMonth(y, m) ==
    IF m = 0 THEN 0 ELSE DaysBeforeMonth(y, m - 1) + DaysInMonth(y, m - 1)

\* the day a year, a month and a day of the month make; a month past
\* December and a day past the end of the month run over into the next
RECURSIVE DayNumber(_, _, _)
DayNumber(y, m, d) ==
    IF m >= 12 THEN DayNumber(y + 1, m - 12, d)
    ELSE DaysBeforeYear(y) + DaysBeforeMonth(y, m) + d - 1

RECURSIVE YearOf(_, _)
YearOf(day, y) == IF day < DaysBeforeYear(y + 1) THEN y ELSE YearOf(day, y + 1)

RECURSIVE MonthOf(_, _, _)
MonthOf(dayOfYear, y, m) ==
    IF dayOfYear < DaysInMonth(y, m) THEN m
    ELSE MonthOf(dayOfYear - DaysInMonth(y, m), y, m + 1)

\* getFullYear, getMonth and getDate of a day
YMD(day) ==
    LET y == YearOf(day, EpochYear)
        m == MonthOf(day - DaysBeforeYear(y), y, 0)
    IN  [y |-> y, m |-> m,
         d |-> day - DaysBeforeYear(y) - DaysBeforeMonth(y, m) + 1]

\* the clock's first instant is 31 January, 21:00 UTC; it ticks by the hour
ClockStart == DayNumber(EpochYear, 0, 31) * 24 + 21

\* new Date(), and new Date(timestamp) of a timestamp the clock gave
Date(n) == ClockStart + n

-----------------------------------------------------------------------------
(* The state as one record; the locals of the running handler are s.loc *)

\* locals of a handler run: its event argument, its consts, its control
NoLoc == [arg |-> NULL, title |-> <<>>, cost |-> 0, entry |-> <<>>,
          endDate |-> 0, now |-> 0, ret |-> FALSE, skip |-> 0]

S == [soil |-> soil, soilRefused |-> soilRefused, sun |-> sun,
      sunRefused |-> sunRefused, week |-> week,
      sprouts |-> sprouts, leaves |-> leaves, sunEntries |-> sunEntries,
      variant |-> variant, currentTwigId |-> currentTwigId,
      currentLeafId |-> currentLeafId, graftFromSproutId |-> graftFromSproutId,
      selectedSeason |-> selectedSeason,
      selectedEnvironment |-> selectedEnvironment, isOpen |-> isOpen,
      logKind |-> logKind, formPresent |-> formPresent,
      formHidden |-> formHidden, triggerHidden |-> triggerHidden,
      titleValue |-> titleValue, confirmDisabled |-> confirmDisabled,
      graftBtns |-> graftBtns,
      currentShiningSprout |-> currentShiningSprout, journal |-> journal,
      dialogHidden |-> dialogHidden, saveDisabled |-> saveDisabled,
      placeholder |-> placeholder, recentSunPrompts |-> recentSunPrompts,
      sunMeter |-> sunMeter, sunPrompts |-> sunPrompts, returned |-> returned,
      now |-> now, tz |-> tz, log |-> log,
      handler |-> handler, calls |-> calls,
      loc |-> NoLoc]

Commit(t) ==
    /\ soil' = t.soil
    /\ soilRefused' = t.soilRefused
    /\ sun' = t.sun
    /\ sunRefused' = t.sunRefused
    /\ week' = t.week
    /\ sprouts' = t.sprouts
    /\ leaves' = t.leaves
    /\ sunEntries' = t.sunEntries
    /\ variant' = t.variant
    /\ currentTwigId' = t.currentTwigId
    /\ currentLeafId' = t.currentLeafId
    /\ graftFromSproutId' = t.graftFromSproutId
    /\ selectedSeason' = t.selectedSeason
    /\ selectedEnvironment' = t.selectedEnvironment
    /\ isOpen' = t.isOpen
    /\ logKind' = t.logKind
    /\ formPresent' = t.formPresent
    /\ formHidden' = t.formHidden
    /\ triggerHidden' = t.triggerHidden
    /\ titleValue' = t.titleValue
    /\ confirmDisabled' = t.confirmDisabled
    /\ graftBtns' = t.graftBtns
    /\ currentShiningSprout' = t.currentShiningSprout
    /\ journal' = t.journal
    /\ dialogHidden' = t.dialogHidden
    /\ saveDisabled' = t.saveDisabled
    /\ placeholder' = t.placeholder
    /\ recentSunPrompts' = t.recentSunPrompts
    /\ sunMeter' = t.sunMeter
    /\ sunPrompts' = t.sunPrompts
    /\ returned' = t.returned
    /\ now' = t.now
    /\ tz' = t.tz
    /\ log' = t.log
    /\ handler' = t.handler
    /\ calls' = t.calls

Return(s) == [s EXCEPT !.loc.ret = TRUE]
Skip(s, n) == [s EXCEPT !.loc.skip = n]

-----------------------------------------------------------------------------
(* Resource ledger (../state): soil and sun *)

SeasonCost(season) ==
    CASE season = "1w" -> 1 [] season = "2w" -> 2 [] season = "1m" -> 3
      [] season = "3m" -> 5 [] season = "6m" -> 8 [] season = "1y" -> 12

EnvironmentFactor(environment) ==
    CASE environment = "fertile" -> 1 [] environment = "firm" -> 2
      [] environment = "barren" -> 3

\* costOf: total, and monotonic in season length and environment harshness
calculateSoilCost(season, environment) ==
    SeasonCost(season) * EnvironmentFactor(environment)

getSoilAvailable(s) == s.soil

canAffordSoil(s, cost) == cost <= getSoilAvailable(s)

\* a spend that exceeds the balance is refused: no-op, InsufficientResource
spendSoil(s, cost) ==
    IF cost > s.soil THEN [s EXCEPT !.soilRefused = TRUE]
    ELSE [s EXCEPT !.soil = @ - cost]

getSunAvailable(s) == s.sun
getSunCapacity(s) == SunCapacity

canAffordSun(s) == 1 <= getSunAvailable(s)

\* unit cost of 1 sun per reflection
spendSun(s) ==
    IF 1 > s.sun THEN [s EXCEPT !.sunRefused = TRUE]
    ELSE [s EXCEPT !.sun = @ - 1]

-----------------------------------------------------------------------------
(* nodeState (../state): sprouts, leaves and sun entries of each twig *)

AllSprouts(s) == UNION {Range(s.sprouts[t]) : t \in TwigIds}

\* generateSproutId: a fresh id
NewSproutId(s) == Cardinality(AllSprouts(s)) + 1

getSproutsByLeaf(sp, leafId) == SelectSeq(sp, LAMBDA x : x.leafId = leafId)

getActiveSprouts(sp) == SelectSeq(sp, LAMBDA x : x.state = "active")

\* getLeafById(twigId, leafId) is defined
HasLeaf(s, twigId, leafId) ==
    /\ twigId \in TwigIds
    /\ leafId \in Range(s.leaves[twigId])

\* the sprout a graft creates: the store stamps the creation with the
\* clock reading of the graft and keeps the activatedAt it is handed
NewSprout(s, leafId, fromId) ==
    [id |-> NewSproutId(s), leafId |-> leafId, state |-> "active",
     graftedFromId |-> fromId, title |-> s.loc.title,
     season |-> s.selectedSeason, environment |-> s.selectedEnvironment,
     soilCost |-> s.loc.cost,
     createdAt |-> s.now, activatedAt |-> s.loc.now, completedAt |-> 0,
     endDate |-> s.loc.endDate,
     waterEntries |-> <<>>, sunEntries |-> <<>>]

\* graft(threadId, null, ...): appends the sprout to the thread; the leaf
\* record is created lazily when it does not exist; an unknown thread
\* (NotFoundError) creates nothing
graftFromLeaf(s) ==
    LET t == s.currentTwigId
        l == s.currentLeafId
    IN  IF t \notin TwigIds \/ l = NULL THEN s
        ELSE LET s1 == IF HasLeaf(s, t, l) THEN s
                       ELSE [s EXCEPT !.leaves[t] = Append(@, l)]
             IN  [s1 EXCEPT !.sprouts[t] = Append(@, NewSprout(s, l, 0))]

\* graft(threadId, originId, ...): the origin is resolved within the twig;
\* an origin that does not resolve creates nothing
graftSprout(s) ==
    LET t == s.currentTwigId
        from == IF t \notin TwigIds THEN <<>>
                ELSE SelectSeq(s.sprouts[t],
                               LAMBDA x : x.id = s.graftFromSproutId)
    IN  IF from = <<>> THEN s
        ELSE [s EXCEPT !.sprouts[t] =
                Append(@, NewSprout(s, from[1].leafId, from[1].id))]

\* the week a timestamp falls in is the timestamp of the model
wasShoneThisWeek(s, twigId) ==
    \E i \in DOMAIN s.sunEntries[twigId] : s.sunEntries[twigId][i].week = s.week

addSunEntry(s) ==
    [s EXCEPT !.sunEntries[s.currentShiningSprout.twigId] =
        Append(@, [week |-> s.week, content |-> s.loc.entry,
                   prompt |-> s.placeholder])]


-----------------------------------------------------------------------------
(* Leaf view: src/src/ui/leaf-view.ts ("leaf") and the origin-chaining     *)
(* variant src/unnamed/part_000 ("chained")                                *)

getLeaf(s) ==
    /\ s.currentTwigId # NULL
    /\ s.currentLeafId # NULL
    /\ HasLeaf(s, s.currentTwigId, s.currentLeafId)

getSprouts(s) ==
    IF s.currentTwigId = NULL \/ s.currentLeafId = NULL THEN <<>>
    ELSE getSproutsByLeaf(s.sprouts[s.currentTwigId], s.currentLeafId)

\* a timestamp is the instant new Date(timestamp).getTime() makes of the
\* ISO string; an absent (undefined) timestamp or id is 0

\* the label of a graft-origin entry whose origin is not among the sprouts
PreviousSprout == <<"previous sprout">>

LogEntry(type, timestamp, sprout, data) ==
    [type |-> type, timestamp |-> timestamp, sproutId |-> sprout.id,
     sproutTitle |-> sprout.title, data |-> data]

\* the start entry as it would be with no fallback for an absent activatedAt
startEntryNoFallback(sprout) ==
    LogEntry("sprout-start", sprout.activatedAt, sprout,
             [season |-> sprout.season, environment |-> sprout.environment])

\* timestamp: sprout.activatedAt || sprout.createdAt
startEntry(sprout) ==
    LogEntry("sprout-start",
             IF sprout.activatedAt # 0 THEN sprout.activatedAt
             ELSE sprout.createdAt,
             sprout,
             [season |-> sprout.season, environment |-> sprout.environment])

\* sprouts.find(s => s.id === id): the first match, if any
find(sp, id) == SelectSeq(sp, LAMBDA x : x.id = id)

\* parent?.title as it would be without the placeholder: undefined (here
\* the empty title) for an origin that is not found
graftedFromTitleNoPlaceholder(sprout, sp) ==
    LET parent == find(sp, sprout.graftedFromId)
    IN  IF parent # <<>> THEN parent[1].title ELSE <<>>

\* parent?.title || 'previous sprout'
graftedFromTitle(sprout, sp) ==
    LET parent == find(sp, sprout.graftedFromId)
    IN  IF parent # <<>> /\ parent[1].title # <<>> THEN parent[1].title
        ELSE PreviousSprout

graftOriginEntries(sprout, sp) ==
    IF sprout.graftedFromId = 0 THEN <<>>
    ELSE <<LogEntry("graft-origin", sprout.createdAt, sprout,
                    [graftedFromTitle |-> graftedFromTitle(sprout, sp)])>>

\* one entry per journal entry, in the order of the journal
journalEntries(type, sprout, journalOf) ==
    [i \in 1..Len(journalOf) |->
        LogEntry(type, journalOf[i].timestamp, sprout,
                 [content |-> journalOf[i].content,
                  prompt |-> journalOf[i].prompt])]

completionEntries(sprout) ==
    IF sprout.completedAt = 0 THEN <<>>
    ELSE <<LogEntry("completion", sprout.completedAt, sprout,
                    [isSuccess |-> sprout.state = "completed"])>>

\* the entries of a sprout as they would be pushed with the graft-origin
\* entry ahead of the start entry
sproutEntriesOriginFirst(sprout, sp, v) ==
    graftOriginEntries(sprout, sp)
    \o <<startEntry(sprout)>>
    \o journalEntries("watering", sprout, sprout.waterEntries)
    \o (IF v = "leaf"
        THEN journalEntries("shining", sprout, sprout.sunEntries) ELSE <<>>)
    \o completionEntries(sprout)

\* the body of the loop over the sprouts: what it pushes for one sprout;
\* part_000 has no shining entries
sproutEntries(sprout, sp, v) ==
    <<startEntry(sprout)>>
    \o graftOriginEntries(sprout, sp)
    \o journalEntries("watering", sprout, sprout.waterEntries)
    \o (IF v = "leaf"
        THEN journalEntries("shining", sprout, sprout.sunEntries) ELSE <<>>)
    \o completionEntries(sprout)

\* entries, after the loop over the first n sprouts
RECURSIVE logEntries(_, _, _)
logEntries(sp, n, v) ==
    IF n = 0 THEN <<>>
    ELSE logEntries(sp, n - 1, v) \o sproutEntries(sp[n], sp, v)

\* the comparator as it would be with its operands exchanged
byTimestampAscending(a, b) == a.timestamp - b.timestamp

\* (a, b) => new Date(b.timestamp).getTime() - new Date(a.timestamp).getTime()
byTimestamp(a, b) == b.timestamp - a.timestamp

\* Array.prototype.sort with that comparator: stable, so entries that
\* compare equal keep the order they were pushed in
RECURSIVE sort(_)
sort(entries) ==
    IF entries = <<>> THEN <<>>
    ELSE LET r == sort(SubSeq(entries, 1, Len(entries) - 1))
             e == entries[Len(entries)]
             k == Cardinality({i \in DOMAIN r : byTimestamp(r[i], e) <= 0})
         IN  SubSeq(r, 1, k) \o <<e>> \o SubSeq(r, k + 1, Len(r))

buildUnifiedLog(sp, v) == sort(logEntries(sp, Len(sp), v))

\* the sprouts render() hands to buildUnifiedLog for leaf l1 of twig t1
LogInput(s) == getSproutsByLeaf(s.sprouts["t1"], "l1")

\* the call as it would be with the entries array kept between calls
buildLogKeepingEntries(s) ==
    [s EXCEPT !.log = sort(s.log \o logEntries(LogInput(s), Len(LogInput(s)),
                                               s.variant))]

\* const logEntries = buildUnifiedLog(sprouts)
buildLog(s) == [s EXCEPT !.log = buildUnifiedLog(LogInput(s), s.variant)]

\* number of entries buildUnifiedLog makes of the sprouts
LogLength(sp) ==
    Len(sp) + Len(SelectSeq(sp, LAMBDA x : x.graftedFromId # 0))
            + Len(SelectSeq(sp, LAMBDA x : x.state # "active"))

\* logEl.innerHTML = ...: the elements of the earlier render are gone
SetLog(s, kind, form, btns) ==
    [s EXCEPT !.logKind = kind, !.formPresent = form, !.formHidden = TRUE,
              !.triggerHidden = FALSE, !.titleValue = <<>>,
              !.confirmDisabled = TRUE, !.graftBtns = btns]

\* render as it would read if the form were offered with every log
renderLeafAlwaysForm(s) ==
    LET sp == getSprouts(s)
    IN  IF Len(sp) = 0 THEN SetLog(s, "empty", FALSE, {})
        ELSE SetLog(s, "log", TRUE, {})

\* render as it would read without the !leaf test before the auto-create
renderLeafAlwaysCreates(s) ==
    LET sp == getSprouts(s)
        s1 == IF Len(sp) > 0
                 /\ s.currentTwigId # NULL /\ s.currentLeafId # NULL
              THEN [s EXCEPT !.leaves[s.currentTwigId] =
                                Append(@, s.currentLeafId)]
              ELSE s
        hasActiveSprout == \E i \in DOMAIN sp : sp[i].state = "active"
    IN  IF Len(sp) = 0 THEN SetLog(s1, "empty", FALSE, {})
        ELSE IF LogLength(sp) = 0 THEN SetLog(s1, "empty", FALSE, {})
        ELSE SetLog(s1, "log", ~hasActiveSprout, {})

renderLeaf(s) ==
    LET sp == getSprouts(s)
        s1 == IF ~getLeaf(s) /\ Len(sp) > 0
                 /\ s.currentTwigId # NULL /\ s.currentLeafId # NULL
              THEN [s EXCEPT !.leaves[s.currentTwigId] =
                                Append(@, s.currentLeafId)]
              ELSE s
        hasActiveSprout == \E i \in DOMAIN sp : sp[i].state = "active"
    IN  IF Len(sp) = 0 THEN SetLog(s1, "empty", FALSE, {})
        ELSE IF LogLength(sp) = 0 THEN SetLog(s1, "empty", FALSE, {})
        ELSE SetLog(s1, "log", ~hasActiveSprout, {})

renderChained(s) ==
    LET sp == getSprouts(s)
    IN  IF ~getLeaf(s) THEN s
        ELSE IF LogLength(sp) = 0 THEN SetLog(s, "empty", FALSE, {})
        ELSE SetLog(s, "log", TRUE,
                    {sp[i].id : i \in {j \in DOMAIN sp : sp[j].state = "completed"}})

render(s) == IF s.variant = "leaf" THEN renderLeaf(s) ELSE renderChained(s)

updateGraftFormState(s) ==
    LET title == trim(s.titleValue)
        hasAllFields == /\ title # <<>>
                        /\ s.selectedSeason # NULL
                        /\ s.selectedEnvironment # NULL
    IN  IF s.selectedSeason # NULL /\ s.selectedEnvironment # NULL
        THEN LET cost == calculateSoilCost(s.selectedSeason, s.selectedEnvironment)
                 canAfford == canAffordSoil(s, cost)
             IN  [s EXCEPT !.confirmDisabled = ~hasAllFields \/ ~canAfford]
        ELSE [s EXCEPT !.confirmDisabled = TRUE]

\* hideGraftForm as it would read without the reset of the form
hideGraftFormKeepingSelections(s) ==
    [s EXCEPT !.formHidden = TRUE, !.triggerHidden = FALSE]

hideGraftForm(s) ==
    [s EXCEPT !.formHidden = TRUE, !.triggerHidden = FALSE,
              !.titleValue = <<>>, !.selectedSeason = NULL,
              !.selectedEnvironment = NULL,
              !.graftFromSproutId = IF s.variant = "chained" THEN 0 ELSE @]

showGraftForm(s) ==
    updateGraftFormState([s EXCEPT !.triggerHidden = TRUE, !.formHidden = FALSE])

\* doGraft, first lines: the early returns on what is not selected
doGraftGuard(s) ==
    IF s.variant = "leaf"
    THEN IF \/ s.currentTwigId = NULL \/ s.currentLeafId = NULL
            \/ s.selectedSeason = NULL \/ s.selectedEnvironment = NULL
         THEN Return(s) ELSE s
    ELSE IF \/ s.currentTwigId = NULL \/ s.graftFromSproutId = 0
            \/ s.selectedSeason = NULL \/ s.selectedEnvironment = NULL
         THEN Return(s) ELSE s

\* doGraft as it would read with the title tested before it is trimmed
doGraftTitleUntrimmed(s) ==
    IF s.titleValue = <<>> THEN Return(s)
    ELSE [s EXCEPT !.loc.title = trim(s.titleValue)]

doGraftTitle(s) ==
    LET title == trim(s.titleValue)
    IN  IF title = <<>> THEN Return(s) ELSE [s EXCEPT !.loc.title = title]

\* the cost as it would be if the environment were left out of it
doGraftCostSeasonOnly(s) ==
    [s EXCEPT !.loc.cost = calculateSoilCost(s.selectedSeason, "fertile")]

doGraftCost(s) ==
    [s EXCEPT !.loc.cost =
        calculateSoilCost(s.selectedSeason, s.selectedEnvironment)]

\* the fields are set in local time, the hour in UTC
getEndDate(season, startDate, offset) ==
    LET local == startDate + offset
        day == local \div 24
        ymd == YMD(day)
        end == CASE season = "1w" -> day + 7
                 [] season = "2w" -> day + 14
                 [] season = "1m" -> DayNumber(ymd.y, ymd.m + 1, ymd.d)
                 [] season = "3m" -> DayNumber(ymd.y, ymd.m + 3, ymd.d)
                 [] season = "6m" -> DayNumber(ymd.y, ymd.m + 6, ymd.d)
                 [] season = "1y" -> DayNumber(ymd.y + 1, ymd.m, ymd.d)
                 [] OTHER -> day
        utc == end * 24 + (local % 24) - offset
    IN  (utc \div 24) * 24 + 15

\* const endDate = getEndDate(selectedSeason): startDate is new Date()
doGraftEndDate(s) ==
    [s EXCEPT !.loc.endDate = getEndDate(s.selectedSeason, Date(s.now), s.tz)]

\* const now = new Date().toISOString()
doGraftNow(s) == [s EXCEPT !.loc.now = s.now]

doGraftAfford(s) == IF ~canAffordSoil(s, s.loc.cost) THEN Return(s) ELSE s

doGraftSpend(s) == spendSoil(s, s.loc.cost)

\* open(leafId, twigId, _branchIndex, startWithGraftForm), before render()
openSet(s) ==
    [s EXCEPT !.currentLeafId = s.loc.arg.leafId,
              !.currentTwigId = s.loc.arg.twigId,
              !.graftFromSproutId = IF s.variant = "chained" THEN 0 ELSE @,
              !.selectedSeason = NULL, !.selectedEnvironment = NULL]

\* open, after render(): the view is shown, and the form with it if asked
openShow(s) ==
    LET s1 == [s EXCEPT !.isOpen = TRUE]
    IN  IF s.variant = "leaf" /\ s.loc.arg.startWithGraftForm /\ s.formPresent
        THEN [s1 EXCEPT !.triggerHidden = TRUE, !.formHidden = FALSE]
        ELSE s1

close(s) ==
    [s EXCEPT !.isOpen = FALSE, !.currentLeafId = NULL, !.currentTwigId = NULL]

\* keydown, up to callbacks.onClose(): an Escape that hides the form returns
escapeKey(s) ==
    IF ~s.isOpen THEN Return(s)
    ELSE IF s.formPresent /\ ~s.formHidden
         THEN Return([s EXCEPT !.formHidden = TRUE, !.triggerHidden = FALSE])
         ELSE s

inputTitle(s) == [s EXCEPT !.titleValue = s.loc.arg]
selectSeason(s) == [s EXCEPT !.selectedSeason = s.loc.arg]
\* the environment button as it would be if it reserved the cost at once
selectEnvironmentReserving(s) ==
    LET s1 == [s EXCEPT !.selectedEnvironment = s.loc.arg]
    IN  IF s1.selectedSeason = NULL THEN s1
        ELSE spendSoil(s1, calculateSoilCost(s1.selectedSeason,
                                             s1.selectedEnvironment))

selectEnvironment(s) == [s EXCEPT !.selectedEnvironment = s.loc.arg]

\* click on the Graft button of a completion entry, up to updateGraftFormState
graftBtnClick(s) ==
    [s EXCEPT !.graftFromSproutId = s.loc.arg, !.formHidden = FALSE]


-----------------------------------------------------------------------------
(* Shine dialog: src/src/features/shine-dialog.ts *)

NoSprout == [id |-> 0, twigId |-> NULL]

Min(a, b) == IF a <= b THEN a ELSE b

\* the asset parsed: n lines that are neither empty nor comments, d of them
\* different, the last one repeated
Prompts(n, d) == [i \in 1..n |-> Min(i, d)]

RECENT_SUN_PROMPT_LIMIT(s) == Min(10, Len(s.sunPrompts) \div 3)

\* getRandomSunPrompt: the prompts offered although shown recently
availableUnfiltered(s) == s.sunPrompts

\* getRandomSunPrompt: sunPrompts.filter(p => !recentSunPrompts.includes(p))
available(s) ==
    SelectSeq(s.sunPrompts, LAMBDA q : q \notin Range(s.recentSunPrompts))

\* getRandomSunPrompt as it would read with >= in the test before shift()
getRandomSunPromptShiftEarly(s, r) ==
    LET pool == IF Len(available(s)) > 0 THEN available(s) ELSE s.sunPrompts
        prompt == pool[((r - 1) % Len(pool)) + 1]
        pushed == Append(s.recentSunPrompts, prompt)
    IN  [s EXCEPT !.placeholder = prompt,
                  !.recentSunPrompts =
                      IF Len(pushed) >= RECENT_SUN_PROMPT_LIMIT(s)
                      THEN Tail(pushed) ELSE pushed]

\* getRandomSunPrompt with Math.random() drawing the r-th candidate
getRandomSunPrompt(s, r) ==
    LET pool == IF Len(available(s)) > 0 THEN available(s) ELSE s.sunPrompts
        prompt == pool[((r - 1) % Len(pool)) + 1]
        pushed == Append(s.recentSunPrompts, prompt)
    IN  [s EXCEPT !.placeholder = prompt,
                  !.recentSunPrompts =
                      IF Len(pushed) > RECENT_SUN_PROMPT_LIMIT(s)
                      THEN Tail(pushed) ELSE pushed]

updateSunMeter(s) ==
    [s EXCEPT !.sunMeter = <<getSunAvailable(s), getSunCapacity(s)>>]

updateRadiateButtonState(s) ==
    [s EXCEPT !.saveDisabled = ~(Len(trim(s.journal)) > 0)]

\* openShineDialog: the weekly gate; skips the refusal when not gated
shineGateWeek(s) ==
    IF wasShoneThisWeek(s, s.loc.arg.twigId) THEN s ELSE Skip(s, 2)

\* openShineDialog: the sun check; skips the refusal when affordable
shineGateSun(s) == IF ~canAffordSun(s) THEN s ELSE Skip(s, 2)

\* openShineDialog, after the two checks
shineShow(s) ==
    LET s1 == [s EXCEPT !.currentShiningSprout =
                            [id |-> s.loc.arg.id, twigId |-> s.loc.arg.twigId],
                        !.journal = <<>>]
        s2 == getRandomSunPrompt(s1, s.loc.arg.rand)
    IN  [updateRadiateButtonState(s2) EXCEPT !.dialogHidden = FALSE]

closeShineDialog(s) ==
    [s EXCEPT !.dialogHidden = TRUE, !.journal = <<>>,
              !.currentShiningSprout = NoSprout]

\* saveSunEntry as it would read with the entry tested before it is trimmed
saveEntryUntrimmed(s) ==
    IF s.journal = <<>> THEN Return(s)
    ELSE [s EXCEPT !.loc.entry = trim(s.journal)]

\* saveSunEntry: the trimmed entry; an empty one returns
saveEntry(s) ==
    LET entry == trim(s.journal)
    IN  IF entry = <<>> THEN Return(s) ELSE [s EXCEPT !.loc.entry = entry]

\* saveSunEntry: the sun check; skips the refusal when affordable
saveAfford(s) == IF ~canAffordSun(s) THEN s ELSE Skip(s, 3)

\* saveSunEntry: if (currentShiningSprout); skips the spend when none
saveHasSprout(s) == IF s.currentShiningSprout # NoSprout THEN s ELSE Skip(s, 4)

\* keydown: Escape closes a dialog that is shown
shineEscape(s) == IF ~s.dialogHidden THEN closeShineDialog(s) ELSE s

inputJournal(s) == updateRadiateButtonState([s EXCEPT !.journal = s.loc.arg])

-----------------------------------------------------------------------------
(* Callbacks of the embedding application *)

CallbackSteps == {"onSoilChange", "onSave", "onClose",
                  "onSetStatus:weekly", "onSetStatus:nosun",
                  "onSetStatus:radiated"}

\* the callback is invoked; onClose closes the leaf view
callback(s, name) ==
    LET s1 == [s EXCEPT !.calls = Append(@, name)]
    IN  IF name = "onClose" THEN close(s1) ELSE s1

-----------------------------------------------------------------------------
(* Handlers: the steps of each body, in source order *)

Exec(step, s) ==
    CASE step \in CallbackSteps -> callback(s, step)
      [] step = "return" -> Return(s)
      [] step = "openSet" -> openSet(s)
      [] step = "render" -> render(s)
      [] step = "openShow" -> openShow(s)
      [] step = "close" -> close(s)
      [] step = "escapeKey" -> escapeKey(s)
      [] step = "showGraftForm" -> showGraftForm(s)
      [] step = "hideGraftForm" -> hideGraftForm(s)
      [] step = "updateGraftFormState" -> updateGraftFormState(s)
      [] step = "inputTitle" -> inputTitle(s)
      [] step = "selectSeason" -> selectSeason(s)
      [] step = "selectEnvironment" -> selectEnvironment(s)
      [] step = "graftBtnClick" -> graftBtnClick(s)
      [] step = "doGraftGuard" -> doGraftGuard(s)
      [] step = "doGraftTitle" -> doGraftTitle(s)
      [] step = "doGraftCost" -> doGraftCost(s)
      [] step = "getEndDate" -> doGraftEndDate(s)
      [] step = "doGraftAfford" -> doGraftAfford(s)
      [] step = "spendSoil" -> doGraftSpend(s)
      [] step = "graftFromLeaf" -> graftFromLeaf(doGraftNow(s))
      [] step = "graftSprout" -> graftSprout(doGraftNow(s))
      [] step = "shineGateWeek" -> shineGateWeek(s)
      [] step = "shineGateSun" -> shineGateSun(s)
      [] step = "shineShow" -> shineShow(s)
      [] step = "closeShineDialog" -> closeShineDialog(s)
      [] step = "saveEntry" -> saveEntry(s)
      [] step = "saveAfford" -> saveAfford(s)
      [] step = "saveHasSprout" -> saveHasSprout(s)
      [] step = "spendSun" -> spendSun(s)
      [] step = "updateSunMeter" -> updateSunMeter(s)
      [] step = "addSunEntry" -> addSunEntry(s)
      [] step = "shineEscape" -> shineEscape(s)
      [] step = "inputJournal" -> inputJournal(s)

\* doGraft as it would read without the canAffordSoil test
doGraftUnchecked ==
    <<"doGraftGuard", "doGraftTitle", "doGraftCost",
      "spendSoil", "onSoilChange", "getEndDate", "graftFromLeaf",
      "hideGraftForm",
      "onSave", "onClose">>

\* doGraft as it would read with onSoilChange called before the spend
doGraftCallbackBeforeSpend ==
    <<"doGraftGuard", "doGraftTitle", "doGraftCost", "doGraftAfford",
      "onSoilChange", "spendSoil", "getEndDate", "graftFromLeaf",
      "hideGraftForm",
      "onSave", "onClose">>

doGraftLeaf ==
    <<"doGraftGuard", "doGraftTitle", "doGraftCost", "doGraftAfford",
      "spendSoil", "onSoilChange", "getEndDate", "graftFromLeaf",
      "hideGraftForm",
      "onSave", "onClose">>

doGraftChained ==
    <<"doGraftGuard", "doGraftTitle", "doGraftCost", "doGraftAfford",
      "spendSoil", "onSoilChange", "getEndDate", "graftSprout",
      "hideGraftForm",
      "render", "onSave">>

\* openShineDialog as it would read without the weekly gate
openShineDialogNoWeekGate ==
    <<"shineGateSun", "onSetStatus:nosun", "return",
      "shineShow">>

\* openShineDialog as it would read with the sun check first
openShineDialogSunFirst ==
    <<"shineGateSun", "onSetStatus:nosun", "return",
      "shineGateWeek", "onSetStatus:weekly", "return",
      "shineShow">>

openShineDialog ==
    <<"shineGateWeek", "onSetStatus:weekly", "return",
      "shineGateSun", "onSetStatus:nosun", "return",
      "shineShow">>

\* saveSunEntry as it would read without the canAffordSun test
saveSunEntryUnchecked ==
    <<"saveEntry",
      "saveHasSprout", "spendSun", "updateSunMeter", "addSunEntry",
      "onSetStatus:radiated",
      "closeShineDialog">>

\* saveSunEntry as it would read without the addSunEntry call
saveSunEntryNoAppend ==
    <<"saveEntry",
      "saveAfford", "onSetStatus:nosun", "closeShineDialog", "return",
      "saveHasSprout", "spendSun", "updateSunMeter", "updateSunMeter",
      "onSetStatus:radiated",
      "closeShineDialog">>

\* saveSunEntry as it would read without closeShineDialog in the refusal
saveSunEntryRefusalStaysOpen ==
    <<"saveEntry",
      "saveAfford", "onSetStatus:nosun", "updateSunMeter", "return",
      "saveHasSprout", "spendSun", "updateSunMeter", "addSunEntry",
      "onSetStatus:radiated",
      "closeShineDialog">>

saveSunEntry ==
    <<"saveEntry",
      "saveAfford", "onSetStatus:nosun", "closeShineDialog", "return",
      "saveHasSprout", "spendSun", "updateSunMeter", "addSunEntry",
      "onSetStatus:radiated",
      "closeShineDialog">>

Body(h) ==
    CASE h = "open" -> <<"openSet", "render", "openShow">>
      [] h = "close" -> <<"close">>
      [] h = "backBtn" -> <<"onClose">>
      [] h = "keydown" -> <<"escapeKey", "onClose">>
      [] h = "showGraftForm" -> <<"showGraftForm">>
      [] h = "hideGraftForm" -> <<"hideGraftForm">>
      [] h = "titleInput" -> <<"inputTitle", "updateGraftFormState">>
      [] h = "seasonBtn" -> <<"selectSeason", "updateGraftFormState">>
      [] h = "envBtn" -> <<"selectEnvironment", "updateGraftFormState">>
      [] h = "graftBtn" -> <<"graftBtnClick", "updateGraftFormState">>
      [] h = "doGraft" -> doGraftLeaf
      [] h = "doGraftChained" -> doGraftChained
      [] h = "openShineDialog" -> openShineDialog
      [] h = "closeShineDialog" -> <<"closeShineDialog">>
      [] h = "saveSunEntry" -> saveSunEntry
      [] h = "journalInput" -> <<"inputJournal">>
      [] h = "shineKeydown" -> <<"shineEscape">>
      [] h = "updateSunMeter" -> <<"updateSunMeter">>

\* the steps left after one step ran: none after a return, fewer after a skip
Rest(steps, s) ==
    IF s.loc.ret THEN <<>>
    ELSE SubSeq(steps, 2 + s.loc.skip, Len(steps))

After(s) == [s EXCEPT !.loc.skip = 0]

\* a body run to completion
RECURSIVE Run(_, _)
Run(steps, s) ==
    IF steps = <<>> THEN s
    ELSE LET t == Exec(Head(steps), s)
         IN  Run(Rest(steps, t), After(t))

\* the state as a handler (or an operation made elsewhere) starts
Begin(h) == [S EXCEPT !.handler = h, !.calls = <<>>]

Invoke(h, arg) ==
    /\ Commit(Run(Body(h), [Begin(h) EXCEPT !.loc.arg = arg]))
    /\ UNCHANGED stack


-----------------------------------------------------------------------------
(* When a handler can run: its element is in the DOM (and, for what the    *)
(* user types or picks, shown); an API function can always be called       *)

SeasonInputs == {"1w", "1y"}
EnvironmentInputs == {"barren"}

OpenArgs ==
    {[leafId |-> th[1], twigId |-> th[2], startWithGraftForm |-> b] :
        th \in Threads, b \in BOOLEAN}

ShineSprouts ==
    {[id |-> 1, twigId |-> "t1"], [id |-> 2, twigId |-> "t1"],
     [id |-> 3, twigId |-> "t2"]}

\* the candidate Math.random() draws, counted from the first
RandInputs == {1}

ShineArgs ==
    {[id |-> sp.id, twigId |-> sp.twigId, rand |-> r] :
        sp \in ShineSprouts, r \in RandInputs}

FormShown(s) == s.isOpen /\ s.formPresent /\ ~s.formHidden

LeafInvocations(s) ==
    {<<"open", a>> : a \in OpenArgs}
    \cup {<<"keydown", NULL>>}
    \cup {<<h, NULL>> : h \in IF s.isOpen THEN {"close", "backBtn"} ELSE {}}
    \cup {<<"showGraftForm", NULL>> : x \in
            IF s.variant = "leaf" /\ s.isOpen /\ s.formPresent /\ ~s.triggerHidden
            THEN {1} ELSE {}}
    \cup {<<"graftBtn", id>> : id \in
            IF s.variant = "chained" /\ s.isOpen THEN s.graftBtns ELSE {}}
    \cup {<<"titleInput", x>> : x \in IF FormShown(s) THEN TextInputs ELSE {}}
    \cup {<<"seasonBtn", x>> : x \in IF FormShown(s) THEN SeasonInputs ELSE {}}
    \cup {<<"envBtn", x>> : x \in IF FormShown(s) THEN EnvironmentInputs ELSE {}}
    \cup {<<"hideGraftForm", NULL>> : x \in IF FormShown(s) THEN {1} ELSE {}}
    \cup {<<h, NULL>> : h \in
            IF s.formPresent /\ Cardinality(AllSprouts(s)) < MaxSprouts
            THEN {IF s.variant = "leaf" THEN "doGraft" ELSE "doGraftChained"}
            ELSE {}}

ShineInvocations(s) ==
    {<<"openShineDialog", a>> : a \in ShineArgs}
    \cup {<<"saveSunEntry", NULL>>, <<"shineKeydown", NULL>>,
          <<"updateSunMeter", NULL>>}
    \cup {<<"closeShineDialog", NULL>> : x \in
            IF ~s.dialogHidden THEN {1} ELSE {}}
    \cup {<<"journalInput", x>> : x \in
            IF ~s.dialogHidden THEN TextInputs ELSE {}}

-----------------------------------------------------------------------------
(* Initial states *)

LeafViewInit ==
    /\ currentTwigId = NULL /\ currentLeafId = NULL /\ graftFromSproutId = 0
    /\ selectedSeason = NULL /\ selectedEnvironment = NULL /\ isOpen = FALSE
    /\ logKind = "blank" /\ formPresent = FALSE /\ formHidden = TRUE
    /\ triggerHidden = FALSE /\ titleValue = <<>> /\ confirmDisabled = TRUE
    /\ graftBtns = {}

\* the clock as the component is built; buildUnifiedLog has not run
TimelineInit == now = 1 /\ tz = 0 /\ log = <<>>

DialogInit ==
    /\ currentShiningSprout = NoSprout /\ journal = <<>> /\ dialogHidden = TRUE
    /\ saveDisabled = FALSE /\ placeholder = 0 /\ recentSunPrompts = <<>>
    /\ sunMeter = <<0, 0>>

ShineInit ==
    /\ DialogInit
    /\ sunPrompts = Prompts(PoolSize, PoolSize) /\ returned = <<>>

LedgerInit ==
    /\ soil = StartSoil /\ soilRefused = FALSE
    /\ sun = SunCapacity /\ sunRefused = FALSE /\ week = 1

\* a sprout planted earlier, outside the leaf view
Planted(id, leafId, state) ==
    [id |-> id, leafId |-> leafId, state |-> state, graftedFromId |-> 0,
     title |-> <<"a">>, season |-> "1w", environment |-> "fertile",
     soilCost |-> 1,
     createdAt |-> 1, activatedAt |-> 1,
     completedAt |-> IF state = "active" THEN 0 ELSE 1,
     endDate |-> getEndDate("1w", Date(1), 0),
     waterEntries |-> <<>>, sunEntries |-> <<>>]

\* what a leaf holds at the start; "grafted": a completed sprout and the
\* active one grafted after it
SproutKinds == {"none", "active", "completed", "failed", "grafted"}

InitSprouts(leafId, k, id) ==
    IF k = "none" THEN <<>>
    ELSE IF k = "grafted"
    THEN <<Planted(id, leafId, "completed"), Planted(id + 1, leafId, "active")>>
    ELSE <<Planted(id, leafId, k)>>

Init ==
    /\ variant \in {"leaf", "chained"}
    /\ LedgerInit /\ LeafViewInit /\ ShineInit /\ TimelineInit
    /\ \E k \in SproutKinds :
          sprouts = [t \in TwigIds |->
                        IF t = "t1" THEN InitSprouts("l1", k, 1) ELSE <<>>]
    /\ \E ls \in {<<>>, <<"l1">>} :
          leaves = [t \in TwigIds |-> IF t = "t1" THEN ls ELSE <<>>]
    /\ sunEntries = [t \in TwigIds |-> <<>>]
    /\ handler = NULL /\ calls = <<>> /\ stack = <<>>

InitShine ==
    /\ variant = "shine"
    /\ LedgerInit /\ LeafViewInit /\ ShineInit /\ TimelineInit
    /\ sprouts = [t \in TwigIds |-> <<>>]
    /\ leaves = [t \in TwigIds |-> <<>>]
    /\ sunEntries = [t \in TwigIds |-> <<>>]
    /\ handler = NULL /\ calls = <<>> /\ stack = <<>>

-----------------------------------------------------------------------------
(* Actions of the leaf view: one per handler, run to completion *)

Call(h, args, inv) == \E a \in args : <<h, a>> \in inv /\ Invoke(h, a)

open == Call("open", OpenArgs, LeafInvocations(S))
closeView == Call("close", {NULL}, LeafInvocations(S))
backBtnClick == Call("backBtn", {NULL}, LeafInvocations(S))
keydown == Call("keydown", {NULL}, LeafInvocations(S))
graftTriggerClick == Call("showGraftForm", {NULL}, LeafInvocations(S))
graftBtn == Call("graftBtn", graftBtns, LeafInvocations(S))
titleInput == Call("titleInput", TextInputs, LeafInvocations(S))
seasonBtn == Call("seasonBtn", SeasonInputs, LeafInvocations(S))
envBtn == Call("envBtn", EnvironmentInputs, LeafInvocations(S))
graftCancel == Call("hideGraftForm", {NULL}, LeafInvocations(S))
doGraft == Call("doGraft", {NULL}, LeafInvocations(S))
doGraftC == Call("doGraftChained", {NULL}, LeafInvocations(S))

\* complete(sproutId) and fail(sproutId), made outside the leaf view
SetState(s, t, i, state) ==
    [s EXCEPT !.sprouts[t][i].state = state,
              !.sprouts[t][i].completedAt = s.now]

endSprout ==
    /\ ~isOpen
    /\ \E t \in TwigIds : \E i \in DOMAIN sprouts[t] :
       \E state \in {"completed", "failed"} :
          /\ sprouts[t][i].state = "active"
          /\ Commit(SetState(Begin("endSprout"), t, i, state))
    /\ UNCHANGED stack

Next ==
    \/ open \/ closeView \/ backBtnClick \/ keydown
    \/ graftTriggerClick \/ graftBtn
    \/ titleInput \/ seasonBtn \/ envBtn \/ graftCancel
    \/ doGraft \/ doGraftC
    \/ endSprout

Spec == Init /\ [][Next]_vars

-----------------------------------------------------------------------------
(* Actions of the shine dialog *)

openShine == Call("openShineDialog", ShineArgs, ShineInvocations(S))
closeShine == Call("closeShineDialog", {NULL}, ShineInvocations(S))
saveSun == Call("saveSunEntry", {NULL}, ShineInvocations(S))
journalInput == Call("journalInput", TextInputs, ShineInvocations(S))
shineKeydown == Call("shineKeydown", {NULL}, ShineInvocations(S))
sunMeterUpdate == Call("updateSunMeter", {NULL}, ShineInvocations(S))

\* once per calendar week available sun resets to capacity
newWeek ==
    /\ week < MaxWeek
    /\ Commit([Begin("newWeek") EXCEPT !.week = @ + 1, !.sun = SunCapacity])
    /\ UNCHANGED stack

\* another consumer of the ledger spends a sun it can afford
otherSpendSun ==
    /\ canAffordSun(S)
    /\ Commit(spendSun(Begin("otherSpendSun")))
    /\ UNCHANGED stack

NextShine ==
    \/ openShine \/ closeShine \/ saveSun \/ journalInput
    \/ shineKeydown \/ sunMeterUpdate
    \/ newWeek \/ otherSpendSun

SpecShine == InitShine /\ [][NextShine]_vars

-----------------------------------------------------------------------------
(* getRandomSunPrompt applied to prompt files drawn from a bounded set *)

\* the longest prompt file drawn
MaxPool == 6

\* the most calls of getRandomSunPrompt followed
MaxCalls == 4

InitPrompt ==
    /\ variant = "shine"
    /\ LedgerInit /\ LeafViewInit /\ DialogInit /\ TimelineInit
    /\ \E n \in 1..MaxPool : \E d \in 1..n : sunPrompts = Prompts(n, d)
    /\ returned = <<>>
    /\ sprouts = [t \in TwigIds |-> <<>>]
    /\ leaves = [t \in TwigIds |-> <<>>]
    /\ sunEntries = [t \in TwigIds |-> <<>>]
    /\ handler = NULL /\ calls = <<>> /\ stack = <<>>

\* getRandomSunPrompt called, Math.random() drawing any of the candidates
drawPrompt ==
    /\ Len(returned) < MaxCalls
    /\ \E r \in 1..Len(sunPrompts) :
          LET t == getRandomSunPrompt(Begin("getRandomSunPrompt"), r)
          IN  Commit([t EXCEPT !.returned = Append(@, t.placeholder)])
    /\ UNCHANGED stack

NextPrompt == drawPrompt

SpecPrompt == InitPrompt /\ [][NextPrompt]_vars


-----------------------------------------------------------------------------
(* buildUnifiedLog applied to sprout sequences drawn from a bounded set *)

\* the longest sprout sequence drawn
MaxLog == 2

\* what a drawn sprout is like: whether it was activated (at its creation
\* or later), whether it is completed, where it was grafted from, and
\* whether it has journal entries
SproutShapes ==
    [act : {"none", "same", "later"}, done : BOOLEAN,
     from : {"none", "previous", "unknown"}, journal : BOOLEAN]

JournalEntry(timestamp) ==
    [timestamp |-> timestamp, content |-> <<"w">>, prompt |-> 0]

\* the i-th sprout of a drawn sequence: created at instant i, its title i
\* letters long; sun entries are kept by sprouts of leaf-view.ts only
InputSprout(i, shape, v) ==
    [id |-> i, leafId |-> "l1",
     state |-> IF shape.done THEN "completed" ELSE "active",
     graftedFromId |-> CASE shape.from = "none" -> 0
                         [] shape.from = "previous" -> i - 1
                         [] shape.from = "unknown" -> i + MaxLog,
     title |-> [j \in 1..i |-> "a"],
     season |-> "1w", environment |-> "fertile", soilCost |-> 1,
     createdAt |-> i,
     activatedAt |-> CASE shape.act = "none" -> 0
                       [] shape.act = "same" -> i
                       [] shape.act = "later" -> i + 1,
     completedAt |-> IF shape.done THEN i + 1 ELSE 0,
     endDate |-> getEndDate("1w", Date(i), 0),
     waterEntries |-> IF shape.journal
                      THEN <<JournalEntry(i), JournalEntry(i + 1)>> ELSE <<>>,
     sunEntries |-> IF shape.journal /\ v = "leaf"
                    THEN <<JournalEntry(i + 1)>> ELSE <<>>]

InitLog ==
    /\ variant \in {"leaf", "chained"}
    /\ LedgerInit /\ LeafViewInit /\ ShineInit /\ TimelineInit
    /\ \E n \in 0..MaxLog : \E f \in [1..n -> SproutShapes] :
          sprouts = [t \in TwigIds |->
                        IF t = "t1"
                        THEN [i \in 1..n |-> InputSprout(i, f[i], variant)]
                        ELSE <<>>]
    /\ leaves = [t \in TwigIds |-> IF t = "t1" THEN <<"l1">> ELSE <<>>]
    /\ sunEntries = [t \in TwigIds |-> <<>>]
    /\ handler = NULL /\ calls = <<>> /\ stack = <<>>

viewLog ==
    /\ Commit(buildLog(Begin("buildUnifiedLog")))
    /\ UNCHANGED stack

NextLog == viewLog

SpecLog == InitLog /\ [][NextLog]_vars

-----------------------------------------------------------------------------
(* The life of a leaf under a clock: sprouts end, successors are grafted in *)
(* the leaf view, and the log of the leaf is built                          *)

\* the last instant of the clock
MaxTime == 4

\* handlers one after another, each run to completion, as long as each can
\* be invoked where the one before it left the view
RECURSIVE Session(_, _)
Session(script, s) ==
    IF script = <<>> THEN [ok |-> TRUE, s |-> s]
    ELSE LET inv == Head(script)
         IN  IF inv \notin LeafInvocations(s) THEN [ok |-> FALSE, s |-> s]
             ELSE Session(Tail(script),
                          Run(Body(inv[1]),
                              [s EXCEPT !.handler = inv[1], !.calls = <<>>,
                                        !.loc = [NoLoc EXCEPT !.arg = inv[2]]]))

\* what the user does to graft on leaf l1: open the leaf (leaf-view.ts: with
\* the form; part_000: then the Graft button of the origin), fill the form
\* in, confirm, and leave the view
GraftScript(v, origin) ==
    LET l1 == [leafId |-> "l1", twigId |-> "t1",
               startWithGraftForm |-> v = "leaf"]
        fill == << <<"titleInput", <<" ", "a", " ">> >>,
                   <<"seasonBtn", "1w">>, <<"envBtn", "barren">> >>
    IN  IF v = "leaf"
        THEN << <<"open", l1>> >> \o fill \o << <<"doGraft", NULL>> >>
        ELSE << <<"open", l1>>, <<"graftBtn", origin>> >> \o fill
             \o << <<"doGraftChained", NULL>>, <<"close", NULL>> >>

InitTimeline ==
    /\ variant \in {"leaf", "chained"}
    /\ LedgerInit /\ LeafViewInit /\ ShineInit /\ TimelineInit
    /\ sprouts = [t \in TwigIds |->
                    IF t = "t1" THEN InitSprouts("l1", "active", 1) ELSE <<>>]
    /\ leaves = [t \in TwigIds |-> IF t = "t1" THEN <<"l1">> ELSE <<>>]
    /\ sunEntries = [t \in TwigIds |-> <<>>]
    /\ handler = NULL /\ calls = <<>> /\ stack = <<>>

\* time passes between two operations
tick ==
    /\ now < MaxTime
    /\ Commit([Begin("tick") EXCEPT !.now = @ + 1])
    /\ UNCHANGED stack

graftSession ==
    /\ ~isOpen
    /\ \E origin \in {0} \cup {x.id : x \in AllSprouts(S)} :
          LET r == Session(GraftScript(variant, origin), S)
          IN  /\ r.ok
              /\ r.s.sprouts # sprouts
              /\ Commit(r.s)
    /\ UNCHANGED stack

NextTimeline == tick \/ endSprout \/ graftSession \/ viewLog

SpecTimeline == InitTimeline /\ [][NextTimeline]_vars

-----------------------------------------------------------------------------
(* The same handlers one step at a time.  A handler starts when none runs; *)
(* at a callback the application may call back into the component, which   *)
(* runs the handler it calls to completion before the callback returns.    *)

Invocations(s) ==
    IF s.variant = "shine" THEN ShineInvocations(s) ELSE LeafInvocations(s)

\* what a callback of the application can reach: the API of the component
\* and a click on the button that spends
Reentrant == {"open", "close", "doGraft", "doGraftChained",
              "openShineDialog", "saveSunEntry", "updateSunMeter"}

\* called: the callback at the head of steps has called back already
Frame(h, a) ==
    [h |-> h, steps |-> Body(h), loc |-> [NoLoc EXCEPT !.arg = a],
     called |-> FALSE]

Top == stack[Len(stack)]

\* the running handler's view of the state
Running == [S EXCEPT !.loc = Top.loc]

startHandler ==
    /\ stack = <<>>
    /\ \E inv \in Invocations(S) :
          /\ stack' = <<Frame(inv[1], inv[2])>>
          /\ Commit(Begin(inv[1]))

stepHandler ==
    /\ stack # <<>>
    /\ LET t == Exec(Head(Top.steps), Running)
           rest == Rest(Top.steps, t)
       IN  /\ Commit(t)
           /\ stack' = IF rest = <<>> THEN SubSeq(stack, 1, Len(stack) - 1)
                       ELSE [stack EXCEPT ![Len(stack)] =
                               [h |-> Top.h, steps |-> rest,
                                loc |-> After(t).loc, called |-> FALSE]]

reenterHandler ==
    /\ stack # <<>>
    /\ Len(stack) < MaxDepth
    /\ Head(Top.steps) \in CallbackSteps
    /\ ~Top.called
    /\ \E inv \in Invocations(S) :
          /\ inv[1] \in Reentrant
          /\ stack' = Append([stack EXCEPT ![Len(stack)].called = TRUE],
                             Frame(inv[1], inv[2]))
          /\ Commit(S)

InitSteps ==
    /\ variant \in {"leaf", "chained", "shine"}
    /\ soil \in {calculateSoilCost("1w", "barren"), StartSoil}
    /\ sun \in {1, SunCapacity}
    /\ soilRefused = FALSE /\ sunRefused = FALSE /\ week = 1
    /\ LeafViewInit /\ ShineInit /\ TimelineInit
    /\ sprouts = [t \in TwigIds |->
                    IF t = "t1" /\ variant # "shine"
                    THEN InitSprouts("l1", "completed", 1) ELSE <<>>]
    /\ leaves = [t \in TwigIds |->
                    IF t = "t1" /\ variant # "shine" THEN <<"l1">> ELSE <<>>]
    /\ sunEntries = [t \in TwigIds |-> <<>>]
    /\ handler = NULL /\ calls = <<>> /\ stack = <<>>

NextSteps == startHandler \/ stepHandler \/ reenterHandler

SpecSteps == InitSteps /\ [][NextSteps]_vars

-----------------------------------------------------------------------------
(* The leaf view one step at a time while the clock runs: each new Date()   *)
(* reads the clock anew, and the clock may advance between two steps        *)

\* the zones the browser may run in: UTC, and three hours east of it
Zones == {0, 3}

InitClock ==
    /\ variant \in {"leaf", "chained"}
    /\ LedgerInit /\ LeafViewInit /\ ShineInit
    /\ now = 1 /\ tz \in Zones /\ log = <<>>
    /\ sprouts = [t \in TwigIds |->
                    IF t = "t1" THEN InitSprouts("l1", "completed", 1) ELSE <<>>]
    /\ leaves = [t \in TwigIds |-> IF t = "t1" THEN <<"l1">> ELSE <<>>]
    /\ sunEntries = [t \in TwigIds |-> <<>>]
    /\ handler = NULL /\ calls = <<>> /\ stack = <<>>

clockAdvance ==
    /\ now < MaxTime
    /\ Commit([S EXCEPT !.now = @ + 1])
    /\ UNCHANGED stack

NextClock == startHandler \/ stepHandler \/ clockAdvance

SpecClock == InitClock /\ [][NextClock]_vars

-----------------------------------------------------------------------------
(* Properties of the leaf view, of the handlers run to completion (Spec) *)

ActiveOn(s, leafId) ==
    {x \in AllSprouts(s) : x.leafId = leafId /\ x.state = "active"}

SproutsOn(s, leafId) == {x \in AllSprouts(s) : x.leafId = leafId}

GraftHandlers == {"doGraft", "doGraftChained"}

\* the leaf a confirmed graft goes to: the open leaf, or the leaf of the
\* sprout the graft is chained from
GraftTarget(s) ==
    IF s.variant = "leaf" THEN s.currentLeafId
    ELSE LET from == {x \in AllSprouts(s) :
                        /\ s.currentTwigId \in TwigIds
                        /\ x \in Range(s.sprouts[s.currentTwigId])
                        /\ x.id = s.graftFromSproutId}
         IN  IF from = {} THEN NULL ELSE (CHOOSE x \in from : TRUE).leafId

\* C1: available soil is never negative and no spendSoil is made that the
\* ledger has to refuse: whenever soil changes, the change is the cost
\* calculateSoilCost gives for the selected season and environment, and
\* canAffordSoil accepted that same cost in the state the handler started in
C1_SpendAfterAfford ==
    [][/\ soil' >= 0
       /\ ~soilRefused'
       /\ soil' # soil =>
            LET cost == calculateSoilCost(selectedSeason, selectedEnvironment)
            IN  /\ handler' \in GraftHandlers
                /\ canAffordSoil(S, cost)
                /\ soil' = soil - cost]_vars

\* a graft was paid for, and a graft was turned down for its cost
C1_Witness ==
    /\ handler \in GraftHandlers
    /\ calls = <<>>
    /\ selectedSeason = "1y" /\ selectedEnvironment = "barren"
    /\ trim(titleValue) # <<>>
    /\ soil < StartSoil /\ soil >= 0

\* C2: every leaf has at most one active sprout
C2_OneActivePerLeaf ==
    \A th \in Threads : Cardinality(ActiveOn(S, th[1])) <= 1

\* C3: a graft confirmed while its leaf has an active sprout is rejected:
\* it spends no soil and creates no sprout
C3_ActiveLeafRejects ==
    [][(handler' \in GraftHandlers /\ ActiveOn(S, GraftTarget(S)) # {})
          => UNCHANGED <<soil, sprouts>>]_vars

\* what a confirmed graft does in the state s
Confirmed(s) ==
    Run(Body(IF s.variant = "leaf" THEN "doGraft" ELSE "doGraftChained"),
        [s EXCEPT !.calls = <<>>])

\* the graft form is filled in and its cost can be paid
GraftReady(s) ==
    /\ s.isOpen /\ s.formPresent
    /\ trim(s.titleValue) # <<>>
    /\ s.selectedSeason # NULL /\ s.selectedEnvironment # NULL
    /\ canAffordSoil(s, calculateSoilCost(s.selectedSeason,
                                          s.selectedEnvironment))

\* the leaf view offers a graft on the open leaf
GraftOffered(s) ==
    IF s.variant = "leaf" THEN s.formPresent ELSE s.graftBtns # {}

-----------------------------------------------------------------------------
(* Properties of the shine dialog, of the handlers run to completion       *)
(* (SpecShine)                                                             *)

OnePerWeek(entries) ==
    \A t \in TwigIds : \A w \in 1..MaxWeek :
        Cardinality({i \in DOMAIN entries[t] : entries[t][i].week = w}) <= 1

ShineState == <<currentShiningSprout, journal, dialogHidden, saveDisabled,
                placeholder, recentSunPrompts, sunMeter>>

\* C5: a twig receives at most one reflection entry per calendar week, and
\* openShineDialog on a twig that has this week's entry calls
\* onSetStatus with the weekly-limit message and nothing else, whatever
\* sun is left
C5_OneReflectionPerWeek ==
    [][/\ OnePerWeek(sunEntries')
       /\ handler' = "openShineDialog" =>
            \A a \in ShineArgs :
               (wasShoneThisWeek(S, a.twigId) /\ Invoke("openShineDialog", a))
                  => /\ calls' = <<"onSetStatus:weekly">>
                     /\ UNCHANGED <<sun, sunEntries, ShineState>>]_vars

\* a second attempt in the week was refused while sun was left
C5_Witness ==
    /\ handler = "openShineDialog"
    /\ calls = <<"onSetStatus:weekly">>
    /\ canAffordSun(S)
    /\ \E t \in TwigIds : wasShoneThisWeek(S, t)

\* C6: the outcome of openShineDialog is decided by the weekly gate first
\* and by canAffordSun second: weekly-limit when the twig is gated, whatever
\* the sun; no-sun exactly when it is not gated and sun is not affordable;
\* otherwise the dialog opens on the sprout
C6_WeeklyGateBeforeSun ==
    [][handler' = "openShineDialog" =>
       \A a \in ShineArgs : Invoke("openShineDialog", a) =>
          IF wasShoneThisWeek(S, a.twigId)
          THEN calls' = <<"onSetStatus:weekly">> /\ UNCHANGED ShineState
          ELSE IF ~canAffordSun(S)
          THEN calls' = <<"onSetStatus:nosun">> /\ UNCHANGED ShineState
          ELSE /\ calls' = <<>>
               /\ ~dialogHidden'
               /\ currentShiningSprout' = [id |-> a.id, twigId |-> a.twigId]]_vars

\* a gated twig with no sun left got the weekly-limit message
C6_Witness ==
    /\ handler = "openShineDialog"
    /\ calls = <<"onSetStatus:weekly">>
    /\ ~canAffordSun(S)

\* C7: available sun is never negative and no spendSun is made that the
\* ledger has to refuse
C7_SunNeverNegative == sun >= 0 /\ ~sunRefused

\* a save was turned down for sun used up after the dialog opened
C7_Witness ==
    /\ handler = "saveSunEntry"
    /\ calls = <<"onSetStatus:nosun">>
    /\ sun = 0
    /\ dialogHidden

\* C8: a run of saveSunEntry either takes one sun and appends one entry to
\* the twig of the sprout of the dialog, or leaves both sun and the entries
\* as they were; it reports success exactly when it did the former
C8_SpendAndAppendTogether ==
    [][handler' = "saveSunEntry" =>
          LET t == currentShiningSprout.twigId
              appended ==
                  /\ t \in TwigIds
                  /\ Len(sunEntries'[t]) = Len(sunEntries[t]) + 1
                  /\ SubSeq(sunEntries'[t], 1, Len(sunEntries[t])) = sunEntries[t]
                  /\ sunEntries'[t][Len(sunEntries'[t])] =
                        [week |-> week, content |-> trim(journal),
                         prompt |-> placeholder]
                  /\ \A u \in TwigIds \ {t} : sunEntries'[u] = sunEntries[u]
          IN  /\ \/ sun' = sun - 1 /\ appended
                 \/ UNCHANGED <<sun, sunEntries>>
              /\ "onSetStatus:radiated" \in Range(calls') <=> sun' = sun - 1]_vars

\* a reflection was saved
C8_Witness ==
    /\ handler = "saveSunEntry"
    /\ calls = <<"onSetStatus:radiated">>
    /\ sun = SunCapacity - 1
    /\ \E t \in TwigIds : Len(sunEntries[t]) = 1 /\ wasShoneThisWeek(S, t)

-----------------------------------------------------------------------------
(* Properties of the handlers taken one step at a time (SpecSteps) *)

\* the steps that read available sun or the entries of a twig
ReadsSunOrEntries ==
    {"updateSunMeter", "shineGateWeek", "shineGateSun", "saveAfford", "spendSun"}

\* a run of saveSunEntry that has spent the sun and not yet added the entry
BetweenSpendAndAppend(f) ==
    /\ f.h = "saveSunEntry"
    /\ "spendSun" \notin Range(f.steps)
    /\ "addSunEntry" \in Range(f.steps)

\* C9: between spendSun and addSunEntry of a run of saveSunEntry no step
\* reads available sun or the entries of the twig
C9_NoReadBetweenSpendAndAppend ==
    \A i \in DOMAIN stack :
        BetweenSpendAndAppend(stack[i]) =>
            /\ i = Len(stack)
            /\ Head(stack[i].steps) \notin ReadsSunOrEntries

\* a run that found its cost affordable and has not spent it yet
BetweenCheckAndSpend(f) ==
    \/ /\ f.h \in GraftHandlers
       /\ "doGraftAfford" \notin Range(f.steps)
       /\ "spendSoil" \in Range(f.steps)
    \/ /\ f.h = "saveSunEntry"
       /\ "saveAfford" \notin Range(f.steps)
       /\ "return" \notin Range(f.steps)
       /\ "spendSun" \in Range(f.steps)

\* C10: with handlers called back into from onSoilChange, onSave, onClose
\* and onSetStatus, soil and sun stay non-negative and no spend is refused
\* by the ledger; between the affordability check and the spend of a run no
\* callback is invoked and no other handler runs
C10_CheckThenSpendIsOneUnit ==
    /\ soil >= 0 /\ sun >= 0
    /\ ~soilRefused /\ ~sunRefused
    /\ \A i \in DOMAIN stack :
          BetweenCheckAndSpend(stack[i]) =>
              /\ i = Len(stack)
              /\ Head(stack[i].steps) \notin CallbackSteps

\* a graft called from onSoilChange of a graft reaches its check with the
\* soil already spent by the outer run
C10_Witness ==
    /\ Len(stack) = 2
    /\ stack[1].h \in GraftHandlers /\ Head(stack[1].steps) = "onSoilChange"
    /\ stack[2].h \in GraftHandlers /\ Head(stack[2].steps) = "doGraftAfford"
    /\ ~canAffordSoil(S, stack[2].loc.cost)
    /\ soil < StartSoil

-----------------------------------------------------------------------------
(* Properties of a confirmed graft and of a dismissed graft form (Spec) *)

\* the sprouts a step has added to the collection
Created == AllSprouts(S)' \ AllSprouts(S)

\* C11: every run of doGraft either spends the soil cost and creates the
\* new sprout, or does neither: soil is never spent for a graft whose
\* sprout is not created
C11_GraftAllOrNothing ==
    [][handler' \in GraftHandlers =>
          \/ UNCHANGED <<soil, sprouts, leaves>>
          \/ /\ soil' < soil
             /\ Cardinality(Created) = 1]_vars

\* C12: a doGraft that creates a sprout decreases the available soil by
\* exactly calculateSoilCost(season, environment) and creates exactly one
\* sprout: active, with that cost as its soilCost and with the origin the
\* graft was made from as its graftedFromId
C12_GraftEffect ==
    [][(handler' \in GraftHandlers /\ sprouts' # sprouts) =>
          LET cost == calculateSoilCost(selectedSeason, selectedEnvironment)
          IN  /\ soil' = soil - cost
              /\ Cardinality(Created) = 1
              /\ AllSprouts(S) \subseteq AllSprouts(S)'
              /\ \A x \in Created :
                    /\ x.state = "active"
                    /\ x.soilCost = cost
                    /\ x.graftedFromId = graftFromSproutId
                    /\ x.leafId = GraftTarget(S)]_vars

\* a chained graft from sprout 1 has been confirmed
C12_Witness ==
    /\ handler \in GraftHandlers
    /\ soil = StartSoil - calculateSoilCost("1w", "barren")
    /\ \E x \in AllSprouts(S) :
          /\ x.state = "active" /\ x.graftedFromId = 1
          /\ x.soilCost = calculateSoilCost("1w", "barren")

\* the ways out of the graft form short of confirming it: the Cancel
\* button, the Escape key, and closing the view (close, or the back button)
DismissHandlers == {"hideGraftForm", "keydown", "close", "backBtn"}

\* what is done to a form between its opening and its confirmation
FormHandlers ==
    DismissHandlers \cup
    {"showGraftForm", "graftBtn", "titleInput", "seasonBtn", "envBtn"}

\* C13: opening the graft form, filling it in and dismissing it before
\* confirmation (Cancel, Escape, closing the view) leave the available
\* soil, the sprout collection and the leaf records as they were
C13_DismissKeepsState ==
    [][handler' \in FormHandlers =>
          UNCHANGED <<soil, soilRefused, sprouts, leaves>>]_vars

\* a form with all fields filled in has been dismissed
Dismissed ==
    /\ handler' \in DismissHandlers
    /\ FormShown(S) /\ ~FormShown(S)'

\* the view was closed on a filled-in form with soil to afford the graft
C13_Witness ==
    /\ handler = "close" /\ ~isOpen /\ formPresent /\ ~formHidden
    /\ selectedSeason # NULL /\ selectedEnvironment # NULL
    /\ trim(titleValue) # <<>>
    /\ canAffordSoil(S, calculateSoilCost(selectedSeason, selectedEnvironment))

\* C14: dismissing the graft form before confirmation by any path clears
\* the selected season, the selected environment, the typed title and
\* (chained variant) the chosen origin
C14_DismissClearsSelections ==
    [][Dismissed =>
          /\ selectedSeason' = NULL /\ selectedEnvironment' = NULL
          /\ titleValue' = <<>> /\ graftFromSproutId' = 0]_vars

\* C15: the origin id the chained doGraft passes to graftSprout names a
\* sprout of the open leaf of the current twig that is completed or failed
C15_OriginOnOpenLeaf ==
    [][(handler' = "doGraftChained" /\ "onSave" \in Range(calls')) =>
          \E x \in Range(sprouts[currentTwigId]) :
              /\ x.id = graftFromSproutId
              /\ x.leafId = currentLeafId
              /\ x.state \in {"completed", "failed"}]_vars

-----------------------------------------------------------------------------
(* Properties of buildUnifiedLog (SpecLog) *)

\* buildUnifiedLog has been applied to the sprouts of the leaf
LogBuilt == handler = "buildUnifiedLog"

\* C16: buildUnifiedLog returns the empty sequence for an empty sprout
\* sequence, and otherwise a sequence whose timestamps never increase from
\* one entry to the next
C16_LogNewestFirst ==
    LogBuilt =>
        /\ LogInput(S) = <<>> => log = <<>>
        /\ \A i \in 1..(Len(log) - 1) : log[i].timestamp >= log[i + 1].timestamp

\* the sort has moved entries, and two entries tie
C16_Witness ==
    /\ LogBuilt
    /\ log # logEntries(LogInput(S), Len(LogInput(S)), variant)
    /\ \E i \in 1..(Len(log) - 1) : log[i].timestamp > log[i + 1].timestamp
    /\ \E i \in 1..(Len(log) - 1) : log[i].timestamp = log[i + 1].timestamp

\* the number of entries of the log for a sprout, of a type, at an instant
Emitted(sprout, type, timestamp) ==
    Cardinality({i \in DOMAIN log :
                    /\ log[i].sproutId = sprout.id /\ log[i].type = type
                    /\ log[i].timestamp = timestamp})

EmittedOfType(sprout, type) ==
    Cardinality({i \in DOMAIN log :
                    log[i].sproutId = sprout.id /\ log[i].type = type})

\* the number of entries of a journal stamped with an instant
Stamped(journalOf, timestamp) ==
    Cardinality({i \in DOMAIN journalOf : journalOf[i].timestamp = timestamp})

LogEntryTypes ==
    {"sprout-start", "graft-origin", "watering", "shining", "completion"}

\* C17: for every input sprout the log holds exactly one start entry (at
\* activatedAt, or at createdAt when activatedAt is absent), one
\* graft-origin entry at createdAt iff graftedFromId is set, one watering
\* or shining entry per journal entry at that entry's timestamp, one
\* completion entry at completedAt iff completedAt is set, and nothing else
C17_LogExpansion ==
    LogBuilt =>
        LET sp == LogInput(S)
        IN  /\ \A i \in DOMAIN log :
                  /\ log[i].type \in LogEntryTypes
                  /\ \E n \in DOMAIN sp : sp[n].id = log[i].sproutId
            /\ \A n \in DOMAIN sp :
                  LET x == sp[n]
                      start == IF x.activatedAt # 0 THEN x.activatedAt
                               ELSE x.createdAt
                  IN  /\ EmittedOfType(x, "sprout-start") = 1
                      /\ Emitted(x, "sprout-start", start) = 1
                      /\ EmittedOfType(x, "graft-origin") =
                            IF x.graftedFromId # 0 THEN 1 ELSE 0
                      /\ Emitted(x, "graft-origin", x.createdAt) =
                            IF x.graftedFromId # 0 THEN 1 ELSE 0
                      /\ EmittedOfType(x, "watering") = Len(x.waterEntries)
                      /\ EmittedOfType(x, "shining") = Len(x.sunEntries)
                      /\ \A ts \in 0..(Len(sp) + 1) :
                            /\ Emitted(x, "watering", ts) =
                                  Stamped(x.waterEntries, ts)
                            /\ Emitted(x, "shining", ts) =
                                  Stamped(x.sunEntries, ts)
                      /\ EmittedOfType(x, "completion") =
                            IF x.completedAt # 0 THEN 1 ELSE 0
                      /\ Emitted(x, "completion", x.completedAt) =
                            IF x.completedAt # 0 THEN 1 ELSE 0

\* a completed, grafted sprout that was never activated and has journal
\* entries of both kinds is in the log
C17_Witness ==
    /\ LogBuilt
    /\ \E n \in DOMAIN LogInput(S) :
          LET x == LogInput(S)[n]
          IN  /\ x.activatedAt = 0 /\ x.graftedFromId # 0
              /\ x.completedAt # 0
              /\ x.waterEntries # <<>> /\ x.sunEntries # <<>>
              /\ Emitted(x, "sprout-start", x.createdAt) = 1

C20_OriginTitle ==
    LogBuilt =>
        LET sp == LogInput(S)
        IN  \A n \in DOMAIN sp :
               sp[n].graftedFromId # 0 =>
                  \E i \in DOMAIN log :
                     /\ log[i].type = "graft-origin"
                     /\ log[i].sproutId = sp[n].id
                     /\ log[i].data.graftedFromTitle =
                           IF \E m \in DOMAIN sp : sp[m].id = sp[n].graftedFromId
                           THEN (CHOOSE p \in Range(sp) :
                                    p.id = sp[n].graftedFromId).title
                           ELSE PreviousSprout

\* one origin resolved and one not, in the same log
C20_Witness ==
    /\ LogBuilt
    /\ \E i, j \in DOMAIN log :
          /\ log[i].type = "graft-origin" /\ log[j].type = "graft-origin"
          /\ log[i].data.graftedFromTitle = PreviousSprout
          /\ log[j].data.graftedFromTitle = <<"a">>

-----------------------------------------------------------------------------
(* Properties of the log of a continued sprout (SpecTimeline) *)

\* the type and the sprout of each entry, in the order of the log
Kinds(entries) ==
    [i \in 1..Len(entries) |-> <<entries[i].type, entries[i].sproutId>>]

\* y is an active successor grafted from x; x, itself not grafted, was
\* completed after it had started and before y was grafted
Continues(x, y) ==
    /\ y.graftedFromId = x.id /\ y.completedAt = 0
    /\ x.graftedFromId = 0 /\ x.state = "completed"
    /\ x.activatedAt < x.completedAt
    /\ x.completedAt < y.createdAt

\* C19: the log of a completed sprout and the successor grafted from it
\* afterwards lists the successor's start, the successor's graft-origin,
\* the first sprout's completion and the first sprout's start, in that
\* order: the start comes before the graft-origin although the graft
\* stamps both with the same instant
C19_SuccessorTimeline ==
    \A x, y \in Range(sprouts["t1"]) :
        Continues(x, y) =>
            Kinds(buildUnifiedLog(<<x, y>>, variant)) =
                << <<"sprout-start", y.id>>, <<"graft-origin", y.id>>,
                   <<"completion", x.id>>, <<"sprout-start", x.id>> >>

\* the log of such a pair has been built; start and graft-origin of the
\* successor tie
C19_Witness ==
    /\ LogBuilt
    /\ Len(sprouts["t1"]) = 2
    /\ Continues(sprouts["t1"][1], sprouts["t1"][2])
    /\ sprouts["t1"][2].activatedAt = sprouts["t1"][2].createdAt
    /\ Len(log) = 4
    /\ log[1].type = "sprout-start" /\ log[2].type = "graft-origin"
    /\ log[1].timestamp = log[2].timestamp

-----------------------------------------------------------------------------
(* Properties of the end date of a grafted sprout (SpecClock) *)

\* C21: the endDate stored on a grafted sprout is its activatedAt advanced
\* by the duration of its season and set to the anchor hour, and is later
\* than its activatedAt
C21_EndDateFromActivation ==
    [][\A x \in Created :
          /\ x.endDate = getEndDate(x.season, Date(x.activatedAt), tz)
          /\ x.endDate > Date(x.activatedAt)]_vars

-----------------------------------------------------------------------------
(* Properties of the prompt buffer (SpecPrompt) *)

\* the last n elements of a sequence, or all of it when it is shorter
LastOf(seq, n) == SubSeq(seq, Len(seq) - Min(n, Len(seq)) + 1, Len(seq))

\* the last k prompts returned before the i-th call
RecentBefore(i) ==
    LastOf(SubSeq(returned, 1, i - 1), RECENT_SUN_PROMPT_LIMIT(S))

\* excluding the last k prompts leaves no candidate for the i-th call
NoCandidate(i) == Range(sunPrompts) \subseteq Range(RecentBefore(i))

\* C22: with k = min(10, floor(pool size / 3)), getRandomSunPrompt returns a
\* prompt of the pool that is none of the last k prompts it returned,
\* unless excluding those leaves no candidate
C22_NoQuickRepeat ==
    \A i \in 1..Len(returned) :
        /\ returned[i] \in Range(sunPrompts)
        /\ ~NoCandidate(i) => returned[i] \notin Range(RecentBefore(i))

\* one call had prompts to exclude and a candidate left, a later one had
\* none left and fell back on the full pool
C22_Witness ==
    \E i, j \in 1..Len(returned) :
        /\ i < j
        /\ RecentBefore(i) # <<>> /\ ~NoCandidate(i)
        /\ NoCandidate(j) /\ returned[j] \in Range(RecentBefore(j))

\* C30: after every call of getRandomSunPrompt the list of recent prompts
\* holds at most k = min(10, floor(pool size / 3)) entries: the last
\* min(k, number of calls) prompts returned, oldest first
C30_RecentIsLastK ==
    /\ Len(recentSunPrompts) <= RECENT_SUN_PROMPT_LIMIT(S)
    /\ recentSunPrompts = LastOf(returned, RECENT_SUN_PROMPT_LIMIT(S))

\* more calls than the list holds: the oldest prompt has been evicted
C30_Witness ==
    /\ RECENT_SUN_PROMPT_LIMIT(S) = 2
    /\ Len(returned) > 2
    /\ returned[1] \notin Range(recentSunPrompts)
    /\ Len(recentSunPrompts) = 2

-----------------------------------------------------------------------------
(* Properties of the leaf records (SpecSteps) *)

\* the sprouts a step has added to a twig
CreatedIn(t) ==
    {x \in Range(sprouts'[t]) : x.id \notin {y.id : y \in AllSprouts(S)}}

\* the records of a twig that carry a leaf id
LeafRecords(l, t, leafId) == {i \in DOMAIN l[t] : l[t][i] = leafId}

NoSecondRecord(l) ==
    \A t \in TwigIds : \A i, j \in DOMAIN l[t] : l[t][i] = l[t][j] => i = j

-----------------------------------------------------------------------------
(* Properties of the callbacks of doGraft, one step at a time (SpecClock) *)

RECURSIVE SumOver(_, _)
SumOver(f, D) ==
    IF D = {} THEN 0
    ELSE LET x == CHOOSE y \in D : TRUE IN f[x] + SumOver(f, D \ {x})

\* the soil the sprouts of the store have cost
SoilPaid(s) ==
    SumOver([t \in TwigIds |->
                SumOver([i \in DOMAIN s.sprouts[t] |-> s.sprouts[t][i].soilCost],
                        DOMAIN s.sprouts[t])], TwigIds)

\* available soil and the soil paid for sprouts, as the component is built
Funds == StartSoil + SoilPaid([sprouts |-> [t \in TwigIds |->
            IF t = "t1" THEN InitSprouts("l1", "completed", 1) ELSE <<>>]])

\* the step invokes the callback
Invoked(name) == calls' = Append(calls, name)

Once(name) == Cardinality({i \in DOMAIN calls' : calls'[i] = name}) = 1

\* C24: doGraft invokes onSoilChange when the soil is spent and the sprout
\* not yet created, and invokes onSave once, after onSoilChange, when the
\* sprout the soil paid for has been created; a doGraft that returns
\* without spending invokes neither
C24_ObserversInOrder ==
    [][(stack # <<>> /\ Top.h \in GraftHandlers) =>
          /\ Invoked("onSoilChange") =>
                soil + Top.loc.cost + SoilPaid(S) = Funds
          /\ Invoked("onSave") =>
                /\ soil + SoilPaid(S) = Funds
                /\ Once("onSoilChange") /\ Once("onSave")
          /\ (stack' = <<>> /\ Top.loc.cost = 0) => calls' = <<>>]_vars

-----------------------------------------------------------------------------
(* Properties of a doGraft that is refused or repeated (Spec) *)

\* what doGraft needs is missing: a title, a season, an environment or, in
\* the chained variant, an origin
Incomplete(s) ==
    \/ trim(s.titleValue) = <<>>
    \/ s.selectedSeason = NULL \/ s.selectedEnvironment = NULL
    \/ s.variant = "chained" /\ s.graftFromSproutId = 0

\* C25: a doGraft invoked with a title that is empty after trimming, with
\* no season or no environment selected or (chained variant) with no
\* origin chosen changes neither soil, the sprouts nor the selections of
\* the form, and invokes no callback
C25_IncompleteGraftNoEffect ==
    [][(handler' \in GraftHandlers /\ Incomplete(S)) =>
          /\ UNCHANGED <<soil, sprouts, leaves, titleValue, selectedSeason,
                         selectedEnvironment, graftFromSproutId>>
          /\ calls' = <<>>]_vars

\* doGraft has returned on a title of white space, all else selected
C25_Witness ==
    /\ handler \in GraftHandlers /\ calls = <<>>
    /\ titleValue # <<>> /\ trim(titleValue) = <<>>
    /\ selectedSeason # NULL /\ selectedEnvironment # NULL
    /\ variant = "chained" => graftFromSproutId # 0

\* C27: a doGraft that follows a doGraft which went through, with no other
\* handler in between, creates no sprout, spends no soil and invokes no
\* callback: the first one has reset the selections
C27_RepeatedGraftRejected ==
    [][(/\ handler \in GraftHandlers /\ "onSave" \in Range(calls)
        /\ handler' \in GraftHandlers) =>
          /\ UNCHANGED <<soil, sprouts, leaves>>
          /\ calls' = <<>>]_vars

\* doGraft has returned without effect on the form a graft has reset
C27_Witness ==
    /\ handler \in GraftHandlers /\ calls = <<>>
    /\ \E x \in AllSprouts(S) : x.createdAt = now /\ x.title = <<"a">>
                                /\ x.soilCost > 1
    /\ selectedSeason = NULL /\ selectedEnvironment = NULL /\ titleValue = <<>>
    /\ formHidden
    /\ variant = "leaf" => ~isOpen

-----------------------------------------------------------------------------
(* Properties of the confirm button of the graft form (Spec) *)

\* what the claim asks of an enabled confirm button
CanConfirm(s) ==
    /\ trim(s.titleValue) # <<>>
    /\ s.selectedSeason # NULL /\ s.selectedEnvironment # NULL
    /\ canAffordSoil(s, calculateSoilCost(s.selectedSeason,
                                          s.selectedEnvironment))

\* C26: whenever the graft form is visible, its confirm button is enabled
\* exactly when the trimmed title is not empty, a season and an environment
\* are selected and the soil cost of the two is affordable
C26_ConfirmEnabledWhenReady ==
    FormShown(S) => (~confirmDisabled <=> CanConfirm(S))

-----------------------------------------------------------------------------
(* Properties of a saveSunEntry that is refused or has no dialog           *)
(* (SpecShine)                                                             *)

\* C28: a saveSunEntry that runs with an entry that is not empty when sun
\* is not affordable spends no sun and appends no reflection entry, and
\* leaves the dialog closed, its sprout cleared and its journal text empty
C28_UnaffordableSaveCloses ==
    [][(/\ handler' = "saveSunEntry"
        /\ trim(journal) # <<>> /\ ~canAffordSun(S)) =>
          /\ UNCHANGED <<sun, sunEntries>>
          /\ dialogHidden' /\ currentShiningSprout' = NoSprout
          /\ journal' = <<>>]_vars

\* saveSunEntry has refused an entry for want of sun and closed the dialog
C28_Witness ==
    /\ handler = "saveSunEntry" /\ calls = <<"onSetStatus:nosun">>
    /\ dialogHidden /\ currentShiningSprout = NoSprout /\ journal = <<>>
    /\ sun = 0

\* C29: a saveSunEntry whose journal text is empty or white space, or that
\* runs when no shine dialog is open for a sprout, changes neither sun nor
\* the reflection entries of any twig
C29_SaveNeedsOpenDialog ==
    [][(/\ handler' = "saveSunEntry"
        /\ \/ trim(journal) = <<>>
           \/ dialogHidden
           \/ currentShiningSprout = NoSprout) =>
          UNCHANGED <<sun, sunEntries>>]_vars

\* saveSunEntry has run on a closed dialog and on sun that is affordable
C29_Witness ==
    /\ handler = "saveSunEntry" /\ calls = <<>>
    /\ dialogHidden /\ currentShiningSprout = NoSprout
    /\ canAffordSun(S)
    /\ \E t \in TwigIds : sunEntries[t] # <<>>

=============================================================================
